---- MODULE Spec2Model ----
(***************************************************************************)
(* Model of fabricdw's configuration store and installation registry       *)
(* (fabricdw/common/config.py) and of the remove command                   *)
(* (fabricdw/installations/remove.py).                                     *)
(*                                                                         *)
(* The process is single-threaded: every operation runs to completion (or  *)
(* to the exception that leaves it) before the next one starts, so each    *)
(* operation is one action.  The variable last records what the operation  *)
(* that ran last was called with and how it ended.                         *)
(***************************************************************************)
EXTENDS Integers, Sequences, FiniteSets, TLC

VARIABLES
    installations,  \* CONFIG.installations: list of Installation objects
    defaults,       \* CONFIG.defaults: the Defaults object
    file,           \* content of CONFIG_FILE (the parsed JSON), or NoFile
    fs,             \* the file system: path -> "absent" | "file" | "dir"
    last,           \* the last operation: its arguments and its outcome
    honored         \* every create so far directly followed a passed ensure_does_not_exist

vars == <<installations, defaults, file, fs, last, honored>>

(***************************************************************************)
(* Bounds and input sets                                                   *)
(***************************************************************************)
\* longest list create_new_installation appends to
MaxLen == 3

Names == {"a", "b"}

Roots == {"/tmp/r1", "/tmp/r2"}

\* RAM sizes are written in tenths (0.5 is 5, 6 is 60); the code never
\* computes with them.
MinRamValues == {10}

MaxRamValues == {40}

IdleTimeValues == {3}

BackupsValues == {2}

(***************************************************************************)
(* Installation                                                            *)
(***************************************************************************)
Installation(name, root) == [name |-> name, root |-> root]

\* Python's None
None == [none |-> TRUE]

\* Installation.__eq__ as a plausible slip: the root takes part in equality
InstallationEqWithRoot(self, other) ==
    other # None /\ other.name = self.name /\ other.root = self.root

\* Installation.__eq__: equal when the other is an Installation of that name
InstallationEq(self, other) ==
    other # None /\ other.name = self.name

InstallationToDict(self) == [root |-> self.root, name |-> self.name]

InstallationFromDict(data) == Installation(data["name"], data["root"])

\* os.path.exists / os.path.isdir
exists(path) == fs[path] # "absent"

isdir(path) == fs[path] = "dir"

(***************************************************************************)
(* list.remove(value): drops the first item equal to value                 *)
(***************************************************************************)
ListHas(list, value) == \E i \in 1..Len(list) : InstallationEq(list[i], value)

RECURSIVE ListRemove(_, _)
ListRemove(list, value) ==
    IF list = <<>> THEN <<>>
    ELSE IF InstallationEq(Head(list), value) THEN Tail(list)
    ELSE <<Head(list)>> \o ListRemove(Tail(list), value)

(***************************************************************************)
(* Config                                                                  *)
(***************************************************************************)
RECURSIVE get_installation(_, _)
get_installation(list, name) ==
    IF list = <<>> THEN None
    ELSE IF Head(list).name = name THEN Head(list)
    ELSE get_installation(Tail(list), name)

\* Config.remove_installation: the error it raises ("none" when it returns)
RemoveInstallationError(list, installation) ==
    IF ListHas(list, installation) THEN "none" ELSE "ValueError"

\* Config.remove_installation: the list afterwards
RemoveInstallationList(list, installation) ==
    IF ListHas(list, installation) THEN ListRemove(list, installation) ELSE list

NoLast ==
    [op |-> "start", name |-> "", root |-> "", flag |-> FALSE, found |-> FALSE,
     live |-> FALSE, asked |-> FALSE, deleted |-> FALSE, ok |-> FALSE,
     error |-> "none"]


(***************************************************************************)
(* Defaults                                                                *)
(***************************************************************************)
\* a dict without keys
EmptyDict == [k \in {} |-> 0]

_default_get(source, key, fallback) ==
    IF key \in DOMAIN source THEN source[key] ELSE fallback

\* Defaults.__init__ / Defaults.from_dict
Defaults(data) ==
    [min_ram   |-> _default_get(data, "min-ram", 5),
     max_ram   |-> _default_get(data, "max-ram", 60),
     idle_time |-> _default_get(data, "idle_time", 0),
     backups   |-> _default_get(data, "backups", 5)]

\* Defaults.to_dict as a plausible slip: the attribute's name used as the key
DefaultsToDictUnderscore(self) ==
    ("min_ram" :> self.min_ram) @@ ("max-ram" :> self.max_ram)
        @@ ("idle_time" :> self.idle_time) @@ ("backups" :> self.backups)

DefaultsToDict(self) ==
    ("min-ram" :> self.min_ram) @@ ("max-ram" :> self.max_ram)
        @@ ("idle_time" :> self.idle_time) @@ ("backups" :> self.backups)

(***************************************************************************)
(* Config: serialization, and the config file                              *)
(***************************************************************************)
Config(default, list) == [defaults |-> default, installations |-> list]

CONFIG == Config(defaults, installations)

ConfigFromDict(data) ==
    Config(Defaults(data["defaults"]),
           [i \in 1..Len(data["installations"]) |->
                InstallationFromDict(data["installations"][i])])

ConfigToDict(self) ==
    [defaults |-> DefaultsToDict(self.defaults),
     installations |-> [i \in 1..Len(self.installations) |->
                            InstallationToDict(self.installations[i])]]

\* CONFIG_FILE does not exist
NoFile == [missing |-> TRUE]

_load_config(content) ==
    ConfigFromDict(IF content # NoFile THEN content
                   ELSE [defaults |-> EmptyDict, installations |-> <<>>])


(***************************************************************************)
(* Installation.ensure_exists / ensure_does_not_exist                      *)
(***************************************************************************)
\* the condition of ensure_exists: no record, or its root is no directory
Missing(installation) ==
    \/ installation = None
    \/ ~exists(installation.root)
    \/ ~isdir(installation.root)

\* ensure_exists: the error that leaves it ("none" when it returns the record)
EnsureExistsError(list, name, remove_if_missing) ==
    IF Missing(get_installation(list, name))
    THEN IF /\ remove_if_missing
            /\ RemoveInstallationError(list, Installation(name, "")) # "none"
         THEN RemoveInstallationError(list, Installation(name, ""))
         ELSE "InstallationDoesNotExistError"
    ELSE "none"

\* ensure_exists as a plausible slip: the stale record is left in the list
EnsureExistsListKeeps(list, name, remove_if_missing) == list

\* ensure_exists: CONFIG.installations afterwards
EnsureExistsList(list, name, remove_if_missing) ==
    IF Missing(get_installation(list, name)) /\ remove_if_missing
    THEN RemoveInstallationList(list, Installation(name, ""))
    ELSE list

\* ensure_does_not_exist as a plausible slip: the lookup's result is not acted on
EnsureDoesNotExistErrorNever(list, name) == "none"

\* ensure_does_not_exist as a plausible slip: a stale record does not count
EnsureDoesNotExistErrorLiveOnly(list, name) ==
    IF ~Missing(get_installation(list, name))
    THEN "InstallationAlreadyExistError" ELSE "none"

\* ensure_does_not_exist: the error that leaves it ("none" when it returns)
EnsureDoesNotExistError(list, name) ==
    IF get_installation(list, name) # None
    THEN "InstallationAlreadyExistError" ELSE "none"

\* what last records of the record get_installation finds under a name
Found(list, name) == get_installation(list, name) # None

Live(list, name) == ~Missing(get_installation(list, name))

(***************************************************************************)
(* The registry's operations                                               *)
(***************************************************************************)
\* a caller runs Installation.ensure_does_not_exist(name)
EnsureDoesNotExist(name) ==
    /\ last' = [NoLast EXCEPT !.op = "ensure_does_not_exist", !.name = name,
                    !.found = Found(installations, name),
                    !.live = Live(installations, name),
                    !.error = EnsureDoesNotExistError(installations, name)]
    /\ UNCHANGED <<installations, defaults, file, fs, honored>>

\* a caller runs CONFIG.create_new_installation(name, root)
CreateNewInstallation(name, root) ==
    /\ Len(installations) < MaxLen
    /\ installations' = Append(installations, Installation(name, root))
    /\ last' = [NoLast EXCEPT !.op = "create_new_installation", !.name = name,
                    !.root = root, !.found = Found(installations, name),
                    !.live = Live(installations, name)]
    /\ honored' = (/\ honored
                   /\ last.op = "ensure_does_not_exist"
                   /\ last.name = name
                   /\ last.error = "none")
    /\ UNCHANGED <<defaults, file, fs>>

\* a caller runs CONFIG.remove_installation(Installation(name, root))
RemoveInstallation(name, root) ==
    /\ installations' = RemoveInstallationList(installations, Installation(name, root))
    /\ last' = [NoLast EXCEPT !.op = "remove_installation", !.name = name,
                    !.root = root, !.found = Found(installations, name),
                    !.live = Live(installations, name),
                    !.error = RemoveInstallationError(installations,
                                                      Installation(name, root))]
    /\ UNCHANGED <<defaults, file, fs, honored>>

\* a caller runs Installation.ensure_exists(name, remove_if_missing)
EnsureExists(name, remove_if_missing) ==
    /\ installations' = EnsureExistsList(installations, name, remove_if_missing)
    /\ last' = [NoLast EXCEPT !.op = "ensure_exists", !.name = name,
                    !.flag = remove_if_missing,
                    !.found = Found(installations, name),
                    !.live = Live(installations, name),
                    !.error = EnsureExistsError(installations, name,
                                                remove_if_missing)]
    /\ UNCHANGED <<defaults, file, fs, honored>>


(***************************************************************************)
(* The remove command (installations/remove.py)                            *)
(***************************************************************************)
\* remove_dir(path) of fabricdw.common: the tree is gone when it returns;
\* when it raises, the directory is still there
remove_dir(path, completes) ==
    IF completes THEN [fs EXCEPT ![path] = "absent"] ELSE fs

Outcome(ret, asked, deleted, error) ==
    [ret |-> ret, asked |-> asked, deleted |-> deleted, error |-> error]

\* _remove_installation as a plausible slip: a declined confirmation counts as success
_remove_installation_declined_true(active_installation, answer, completes) ==
    IF active_installation = None THEN Outcome(FALSE, FALSE, FALSE, "none")
    ELSE IF ~exists(active_installation.root) \/ ~isdir(active_installation.root)
    THEN Outcome(TRUE, FALSE, FALSE, "none")
    ELSE IF answer
    THEN IF completes THEN Outcome(TRUE, TRUE, TRUE, "none")
         ELSE Outcome(FALSE, TRUE, FALSE, "OSError")
    ELSE Outcome(TRUE, TRUE, FALSE, "none")

\* _remove_installation as a plausible slip: the deletion's error is swallowed
_remove_installation_swallows(active_installation, answer, completes) ==
    IF active_installation = None THEN Outcome(FALSE, FALSE, FALSE, "none")
    ELSE IF ~exists(active_installation.root) \/ ~isdir(active_installation.root)
    THEN Outcome(TRUE, FALSE, FALSE, "none")
    ELSE IF answer
    THEN Outcome(TRUE, TRUE, completes, "none")
    ELSE Outcome(FALSE, TRUE, FALSE, "none")

\* _remove_installation as a plausible slip: a stale record is asked about like a live one
_remove_installation_stale_asks(active_installation, answer, completes) ==
    IF active_installation = None THEN Outcome(FALSE, FALSE, FALSE, "none")
    ELSE IF answer
    THEN IF completes THEN Outcome(TRUE, TRUE, TRUE, "none")
         ELSE Outcome(FALSE, TRUE, FALSE, "OSError")
    ELSE Outcome(FALSE, TRUE, FALSE, "none")

\* _remove_installation(active_installation, fallback_name): what it returns
\* (ret), whether it asked yes_no_question, whether remove_dir completed, and
\* the error that leaves it.  answer is the user's reply, completes whether
\* remove_dir returns.
_remove_installation(active_installation, answer, completes) ==
    IF active_installation = None THEN Outcome(FALSE, FALSE, FALSE, "none")
    ELSE IF ~exists(active_installation.root) \/ ~isdir(active_installation.root)
    THEN Outcome(TRUE, FALSE, FALSE, "none")
    ELSE IF answer
    THEN IF completes THEN Outcome(TRUE, TRUE, TRUE, "none")
         ELSE Outcome(FALSE, TRUE, FALSE, "OSError")
    ELSE Outcome(FALSE, TRUE, FALSE, "none")

\* remove_installation as a plausible slip: the record is never taken off the list
RemoveCommandListKeeps(list, active_installation, outcome) == list

\* remove_installation(args): CONFIG.installations afterwards
RemoveCommandList(list, active_installation, outcome) ==
    IF outcome.error = "none" /\ outcome.ret
    THEN RemoveInstallationList(list, active_installation)
    ELSE list

\* remove_installation(args): the error that leaves it
RemoveCommandError(list, active_installation, outcome) ==
    IF outcome.error = "none" /\ outcome.ret
    THEN RemoveInstallationError(list, active_installation)
    ELSE outcome.error

\* remove_installation as a plausible slip: the command saves the config itself
RemoveCommandFileSaves(content, config) == ConfigToDict(config)

\* remove_installation(args): CONFIG_FILE afterwards (write_config is not called)
RemoveCommandFile(content, config) == content

\* the CLI runs remove_installation(args) with args.name = name
RemoveCommand(name, answer, completes) ==
    LET active_installation == get_installation(installations, name)
        outcome == _remove_installation(active_installation, answer, completes)
    IN  /\ installations' = RemoveCommandList(installations, active_installation, outcome)
        /\ fs' = IF outcome.asked /\ answer
                 THEN remove_dir(active_installation.root, completes)
                 ELSE fs
        /\ file' = RemoveCommandFile(file, Config(defaults, installations'))
        /\ last' = [NoLast EXCEPT !.op = "remove", !.name = name,
                        !.flag = outcome.asked /\ answer,
                        !.found = Found(installations, name),
                        !.live = Live(installations, name),
                        !.asked = outcome.asked,
                        !.deleted = outcome.deleted,
                        !.ok = outcome.error = "none" /\ outcome.ret,
                        !.error = RemoveCommandError(installations,
                                                     active_installation, outcome)]
        /\ UNCHANGED <<defaults, honored>>

\* write_config()
WriteConfig ==
    /\ file' = ConfigToDict(CONFIG)
    /\ last' = [NoLast EXCEPT !.op = "write_config"]
    /\ UNCHANGED <<installations, defaults, fs, honored>>

\* a new process starts: CONFIG = _load_config()
LoadConfig ==
    /\ installations' = _load_config(file).installations
    /\ defaults' = _load_config(file).defaults
    /\ last' = [NoLast EXCEPT !.op = "load_config"]
    /\ UNCHANGED <<file, fs, honored>>


(***************************************************************************)
(* Initial states                                                          *)
(***************************************************************************)
FileSystems == [Roots -> {"absent", "file", "dir"}]

DefaultsKeys == {"min-ram", "max-ram", "idle_time", "backups"}

KeyValues(key) ==
    CASE key = "min-ram" -> MinRamValues
      [] key = "max-ram" -> MaxRamValues
      [] key = "idle_time" -> IdleTimeValues
      [] key = "backups" -> BackupsValues

\* the "defaults" objects of a config file: every key is optional
RawDefaults ==
    UNION {{d \in [K -> MinRamValues \cup MaxRamValues \cup IdleTimeValues
                            \cup BackupsValues] :
                \A k \in K : d[k] \in KeyValues(k)} : K \in SUBSET DefaultsKeys}

\* the "installations" arrays of a config file: what write_config left of a
\* registry whose names are unique
StoredLists ==
    {l \in UNION {[1..n -> {InstallationToDict(Installation(name, root)) :
                                name \in Names, root \in Roots}] :
                    n \in 0..Cardinality(Names)} :
        \A i, j \in 1..Len(l) : i # j => l[i]["name"] # l[j]["name"]}

StoredFiles ==
    {NoFile} \cup {[defaults |-> d, installations |-> l] :
                        d \in RawDefaults, l \in StoredLists}

\* a process that starts without a config file
InitRegistry ==
    /\ file = NoFile
    /\ installations = _load_config(file).installations
    /\ defaults = _load_config(file).defaults
    /\ fs \in FileSystems
    /\ last = NoLast
    /\ honored = TRUE

\* a process that starts on a config file
InitStore ==
    /\ file \in StoredFiles
    /\ installations = _load_config(file).installations
    /\ defaults = _load_config(file).defaults
    /\ fs \in FileSystems
    /\ last = NoLast
    /\ honored = TRUE

(***************************************************************************)
(* Specifications                                                          *)
(***************************************************************************)
\* the registry's operations, called in any order
NextRegistry ==
    \/ \E name \in Names : EnsureDoesNotExist(name)
    \/ \E name \in Names, root \in Roots : CreateNewInstallation(name, root)
    \/ \E name \in Names, root \in Roots \cup {""} : RemoveInstallation(name, root)
    \/ \E name \in Names, remove_if_missing \in BOOLEAN :
            EnsureExists(name, remove_if_missing)

SpecRegistry == InitRegistry /\ [][NextRegistry]_vars

\* the remove command, saving and restarting
NextStore ==
    \/ \E name \in Names, answer \in BOOLEAN, completes \in BOOLEAN :
            RemoveCommand(name, answer, completes)
    \/ WriteConfig
    \/ LoadConfig

SpecStore == InitStore /\ [][NextStore]_vars


(***************************************************************************)
(* Properties                                                              *)
(***************************************************************************)
\* some record of the list has the name
Named(list, name) == \E i \in 1..Len(list) : list[i].name = name

\* the index of the first record of that name
FirstNamed(list, name) ==
    CHOOSE i \in 1..Len(list) :
        list[i].name = name /\ \A j \in 1..(i - 1) : list[j].name # name

\* the list without its i-th record, the others in their order
Without(list, i) == SubSeq(list, 1, i - 1) \o SubSeq(list, i + 1, Len(list))

\* the first record of that name has a root that is a directory
NamedLive(list, name) ==
    Named(list, name) /\ fs[list[FirstNamed(list, name)].root] = "dir"

\* the first record of that name has a root that is absent or no directory
NamedStale(list, name) ==
    Named(list, name) /\ fs[list[FirstNamed(list, name)].root] # "dir"

\* C1: as long as every create_new_installation(name, root) directly follows
\* an ensure_does_not_exist(name) that returned, no two records of
\* CONFIG.installations have the same name.
C1_UniqueNames ==
    honored => \A i, j \in 1..Len(installations) :
                    i # j => installations[i].name # installations[j].name

C1_Witness ==
    /\ honored
    /\ last.op = "create_new_installation"
    /\ Len(installations) = 2
    /\ \E root \in Roots : fs[root] # "dir" /\ installations[1].root = root


\* C2: ensure_exists(name), called with its default remove_if_missing on a
\* registry whose record of that name is stale, leaves with
\* InstallationDoesNotExistError and has removed that record; the other
\* records are still there in their order.
C2_StaleRecordRemoved ==
    [][(/\ last'.op = "ensure_exists"
        /\ last'.flag
        /\ NamedStale(installations, last'.name))
       => (/\ last'.error = "InstallationDoesNotExistError"
           /\ installations' =
                Without(installations, FirstNamed(installations, last'.name)))]_vars

C2_Witness ==
    /\ last.op = "ensure_exists"
    /\ last.flag
    /\ last.found
    /\ ~last.live
    /\ last.error = "InstallationDoesNotExistError"
    /\ Len(installations) = 2
    /\ installations[1].name # installations[2].name

\* C3: ensure_exists(name), called with its default remove_if_missing on a
\* registry without a record of that name, leaves with
\* InstallationDoesNotExistError and the registry is as it was.
C3_AbsentRaisesDoesNotExist ==
    [][(/\ last'.op = "ensure_exists"
        /\ last'.flag
        /\ ~Named(installations, last'.name))
       => (/\ last'.error = "InstallationDoesNotExistError"
           /\ installations' = installations)]_vars

\* C8: remove_installation(installation) takes the first record of the given
\* installation's name off the list, whatever the given root, and leaves the
\* others in their order; without such a record it raises (ValueError) and
\* the list is as it was.
C8_RemovesFirstOfName ==
    [][last'.op = "remove_installation"
       => IF Named(installations, last'.name)
          THEN /\ last'.error = "none"
               /\ installations' =
                    Without(installations, FirstNamed(installations, last'.name))
          ELSE /\ last'.error = "ValueError"
               /\ installations' = installations]_vars

C8_Witness ==
    /\ last.op = "remove_installation"
    /\ last.found
    /\ last.error = "none"
    /\ last.root = ""
    /\ Len(installations) = 2

\* C9: ensure_does_not_exist(name) raises InstallationAlreadyExistError
\* exactly when the registry has a record of that name, live or stale, and
\* returns otherwise; the registry is as it was either way.
C9_RaisesIffRecorded ==
    [][last'.op = "ensure_does_not_exist"
       => (/\ last'.error = (IF Named(installations, last'.name)
                             THEN "InstallationAlreadyExistError" ELSE "none")
           /\ installations' = installations)]_vars

C9_Witness ==
    /\ last.op = "ensure_does_not_exist"
    /\ last.error = "InstallationAlreadyExistError"
    /\ NamedStale(installations, last.name)


\* the remove command that takes name ends on a success path: its record is
\* stale, or it is live, the deletion was confirmed and the directory is gone
RemoveSucceeds(name) ==
    \/ NamedStale(installations, name)
    \/ /\ NamedLive(installations, name)
       /\ last'.flag
       /\ fs'[installations[FirstNamed(installations, name)].root] = "absent"

C5_FailureChangesNothing ==
    [][(/\ last'.op = "remove"
        /\ \/ ~Named(installations, last'.name)
           \/ NamedLive(installations, last'.name) /\ ~last'.flag)
       => (/\ last'.error = "none"
           /\ ~last'.ok
           /\ installations' = installations
           /\ fs' = fs
           /\ file' = file)]_vars

C5_Witness ==
    /\ last.op = "remove"
    /\ last.found
    /\ last.live
    /\ last.asked
    /\ ~last.flag
    /\ ~last.ok
    /\ NamedLive(installations, last.name)

\* C6: when the directory deletion the remove command started fails, the
\* error leaves the command and the record is still in the registry; a
\* command that takes a live record off the registry has deleted its
\* directory before.
C6_RecordKeptWhenDeletionFails ==
    [][(last'.op = "remove" /\ NamedLive(installations, last'.name))
       => (/\ (/\ last'.flag
               /\ fs'[installations[FirstNamed(installations, last'.name)].root]
                    = "dir")
              => (last'.error = "OSError" /\ installations' = installations)
           /\ installations' # installations
              => (/\ last'.deleted
                  /\ fs'[installations[FirstNamed(installations, last'.name)].root]
                        = "absent"))]_vars

C6_Witness ==
    /\ last.op = "remove"
    /\ last.error = "OSError"
    /\ last.flag
    /\ NamedLive(installations, last.name)

\* C7: the remove command on a stale record asks no confirmation, deletes
\* nothing, succeeds, and the record is taken off the registry.
C7_StaleRemovedUnasked ==
    [][(last'.op = "remove" /\ NamedStale(installations, last'.name))
       => (/\ ~last'.asked
           /\ ~last'.deleted
           /\ fs' = fs
           /\ last'.ok
           /\ last'.error = "none"
           /\ installations' =
                Without(installations, FirstNamed(installations, last'.name)))]_vars

C7_Witness ==
    /\ last.op = "remove"
    /\ last.found
    /\ ~last.live
    /\ last.ok
    /\ ~last.asked
    /\ ~Named(installations, last.name)
    /\ Len(installations) = 1

\* C10: Config.from_dict(c.to_dict()) has c's installations, name by name
\* and root by root in c's order, and c's defaults in all four fields.
C10_RoundTrip ==
    LET c == ConfigFromDict(ConfigToDict(CONFIG))
    IN  /\ Len(c.installations) = Len(installations)
        /\ \A i \in 1..Len(installations) :
                /\ c.installations[i].name = installations[i].name
                /\ c.installations[i].root = installations[i].root
        /\ c.defaults.min_ram = defaults.min_ram
        /\ c.defaults.max_ram = defaults.max_ram
        /\ c.defaults.idle_time = defaults.idle_time
        /\ c.defaults.backups = defaults.backups

C10_Witness ==
    /\ last.op = "load_config"
    /\ file = ConfigToDict(CONFIG)
    /\ Len(installations) = 2
    /\ installations[1].root # installations[2].root
    /\ defaults.min_ram # 5
    /\ defaults.backups = 5

====
